---- MODULE Spec2Model ----
(***************************************************************************)
(* Data-slot command/response protocol of the PocketQuake firmware         *)
(* (src/src/firmware/dataslot.c): the memory-mapped register set, the      *)
(* completion waiter dataslot_wait_complete and the slot operations built  *)
(* on it, run against a bridge that drives the status register.            *)
(***************************************************************************)
EXTENDS Integers, Sequences, FiniteSets, TLC

(***************************************************************************)
(* Bounds of the model.                                                    *)
(***************************************************************************)
\* Polls per phase.  dataslot.c:18 sets 200000000; the model scales it down.
TIMEOUT_LOOPS == 3
\* Largest value the bridge puts in the error field of the status register.
MaxErr == 3
\* How far past the filename field the longest filename passed to
\* dataslot_open_file reaches.
MaxNameOver == 1
\* The number of 32-bit words of one DMA transfer (DMA_SIZE / 4 in main.c).
DmaWords == 2

(***************************************************************************)
(* Program constants.                                                      *)
(***************************************************************************)
\* 0x10000000, first CPU address of the shared window (dataslot.c:96).
WINDOW_LO == 268435456
\* 0x14000000, first CPU address past the shared window (dataslot.c:96).
WINDOW_HI == 335544320
\* 0x10F00000 and 0x10F01000 (dataslot.c:13, dataslot.c:14).
PARAM_BUFFER_ADDR == 284164096
RESP_BUFFER_ADDR == 284168192
\* strncpy(param->filename, filename, 255); param->filename[255] = '\0';
FILENAME_COPY_MAX == 255
\* sizeof(param->filename) and sizeof(*param): the filename field, then the
\* two 32-bit words flags and size (dataslot_open_param_t, dataslot.h).
FNAME_FIELD == 256
PARAM_BLOCK_SIZE == 264
\* 0x10800000 and 0x10804000: DMA fill/copy target and copy destination;
\* 0x10600000, 0x30200000, 0x38010000: the CPU's SDRAM, PSRAM and SRAM areas
\* during a DMA (main.c:29-34).
DMA_TARGET == 276824064
DMA_TARGET2 == 276840448
SDRAM_DMA_CPU == 274726912
PSRAM_DMA_CPU == 807403520
SRAM_DMA_CPU == 939589632
\* DMA_CTRL_START and DMA_CTRL_COPY (dma_accel.h:20-21).
DMA_CTRL_START == 1
DMA_CTRL_COPY == 2

\* The words of memory kept: the DMA target, the copy destination and one
\* word of each CPU area.
TargetCells == {DMA_TARGET + 4 * i : i \in 0 .. DmaWords - 1}
Target2Cells == {DMA_TARGET2 + 4 * i : i \in 0 .. DmaWords - 1}
CpuAreaCells == {SDRAM_DMA_CPU, PSRAM_DMA_CPU, SRAM_DMA_CPU}
RamCells == TargetCells \cup Target2Cells \cup CpuAreaCells
NoDma == [op |-> "none", src |-> 0, dst |-> 0, length |-> 0, fill |-> 0]

\* Inputs the operations are called with.
SlotIds == {0, 1}
Offsets == {0, 1}
\* A 32-bit unsigned length is kept as its two 16-bit halves, so that every
\* value of uint32_t can be written; n is below 2^31 in U32(n).
U32(n) == [hi |-> n \div 65536, lo |-> n % 65536]
\* The number a length below 2^31 stands for.
Low(w) == w.hi * 65536 + w.lo
\* The int i and the unsigned length w are the same number.
EqualsU32(i, w) == i >= 0 /\ U32(i) = w
Lengths == {U32(1), U32(2)}
Addrs == {WINDOW_LO - 1, WINDOW_LO, WINDOW_LO + 1, WINDOW_HI}

\* (uint16_t)x and, for a uint32_t x, (int32_t)x.
ToU16(x) == x % 65536
\* (int32_t)w of a 32-bit unsigned w: the same bits read as two's complement.
ToI32(w) ==
  IF w.hi >= 32768 THEN (w.hi - 65536) * 65536 + w.lo ELSE w.hi * 65536 + w.lo

(***************************************************************************)
(* The register interface (dataslot.h is not part of the sources: the      *)
(* status layout, the command codes and the address translation are taken  *)
(* from the specification).                                                *)
(***************************************************************************)
StatusVals == [ack : BOOLEAN, done : BOOLEAN, err : 0 .. MaxErr]
DS_STATUS_ACK(s) == s.ack
DS_STATUS_DONE(s) == s.done
\* (status & DS_STATUS_ERR_MASK) >> DS_STATUS_ERR_SHIFT
ErrField(s) == s.err
CPU_TO_BRIDGE_ADDR(a) == a - WINDOW_LO

RegNames == {"slot_id", "slot_offset", "bridge_addr", "length",
             "param_addr", "resp_addr", "command"}

\* A sequence of register writes <<name, value>> applied in order.
RECURSIVE ApplyWrites(_, _)
ApplyWrites(r, ws) ==
  IF ws = <<>> THEN r
  ELSE ApplyWrites([r EXCEPT ![ws[1][1]] = ws[1][2]], Tail(ws))

\* terminal.c: a 40x30 character display, one byte of VRAM per cell.
TERM_COLS == 40
TERM_ROWS == 30
TERM_SIZE == TERM_COLS * TERM_ROWS
\* The characters term_putchar tells apart: '\b', '\n' and '\r'.
CHAR_BS == 8
CHAR_NL == 10
CHAR_CR == 13
\* No VRAM index: the call made no such access.
NoIndex == -1
\* No terminal call yet.
NoTerm == [op |-> "none", row |-> 0, col |-> 0, c |-> 0, prow |-> 0, pcol |-> 0,
           store |-> NoIndex, reach |-> 0, scrolls |-> 0, top |-> NoIndex]

VARIABLES
  regs,      \* the write registers, as last written
  status,    \* the status register, driven by the bridge
  bstate,    \* the bridge: a command is pending, one is being run (latched)
  mem,       \* shared memory, by CPU address
  store,     \* the bridge's slot storage, by <<slot, offset>>
  pc,        \* where the CPU is: "idle", a position in the waiter, or "ret"
  call,      \* the operation being run (or last run) and its arguments
  timeout,   \* the waiter's local countdown
  err,       \* the waiter's local err
  wres,      \* the waiter's return value
  result,    \* the operation's return value
  wlog,      \* register writes made by the current call, in order
  kind,      \* how the last call ended
  entryAck,  \* the waiter's first status read (line 25) saw ACK set
  drained,   \* the waiter's check (line 29) saw ACK set
  sawAck, sawAckClear, sawDone,   \* what this waiter call's status reads saw
  polls,     \* loop polls made by this waiter call
  fails,     \* polls of the current phase that did not see its condition
  inflight,  \* commands triggered and not yet waited for
  lastw,     \* the last successful write: slot, offset, bytes
  stage,     \* the open-file parameter block at PARAM_BUFFER_ADDR
  stageHi,   \* highest offset in the block written so far, -1 for none
  size_out,  \* the word dataslot_get_size stores through size_out, -1 unset
  dreg,      \* DMA registers: src, dst, length, fill, control
  dstat,     \* DMA engine: the BUSY bit and the words transferred so far
  ram,       \* the words of SDRAM, PSRAM and SRAM, by CPU address
  expect,    \* what each word should hold: the CPU's stores, the DMA's job
  dpc,       \* the CPU around a DMA: "idle", "started", "waiting", "ret"
  dcall,     \* the dma_fill or dma_copy call in progress
  probe,     \* the address of the CPU's last load in this call, 0 for none
  derr,      \* TRUE when a load returned another value than expected
  prev,      \* how the previous slot operation ended, "none" at first
  cursor_row, cursor_col,   \* the terminal's cursor
  tlast      \* the last terminal call: arguments, cursor before, VRAM indices

devVars == <<regs, status, bstate, mem, store>>
cpuVars == <<pc, call, timeout, err, wres, result>>
histVars == <<wlog, kind, entryAck, drained, sawAck, sawAckClear, sawDone, polls, fails,
              inflight, lastw>>
apiVars == <<stage, stageHi, size_out>>
dmaVars == <<dreg, dstat, ram, expect, dpc, dcall, probe, derr>>
termVars == <<cursor_row, cursor_col, tlast>>
vars == <<devVars, cpuVars, histVars, apiVars, dmaVars, prev, termVars>>

MemCells == WINDOW_LO .. WINDOW_LO + 2
StoreCells == SlotIds \X (0 .. 2)
NoCall ==
  [op |-> "none", slot |-> 0, offset |-> 0, addr |-> 0, length |-> U32(0)]
NoWrite == [slot |-> 0, offset |-> 0, data |-> <<>>]
ResetRegs ==
  [n \in RegNames |->
     IF n = "command" THEN "NONE" ELSE IF n = "length" THEN U32(0) ELSE 0]
\* The filename field is kept as its bytes up to the last one that is not
\* NUL; every byte of the field after them is NUL.
ZeroBlock == [filename |-> <<>>, flags |-> 0, size |-> 0]
FilenameByte(b, i) == IF i <= Len(b.filename) THEN b.filename[i] ELSE 0

Init ==
  /\ regs = ResetRegs
  /\ status \in StatusVals
  /\ bstate = [pending |-> FALSE, busy |-> FALSE, r |-> ResetRegs]
  /\ mem = [a \in MemCells |-> 0]
  /\ store = [c \in StoreCells |-> 0]
  /\ pc = "idle"
  /\ call = NoCall
  /\ timeout = 0
  /\ err = 0
  /\ wres = 0
  /\ result = 0
  /\ wlog = <<>>
  /\ kind = "none"
  /\ entryAck = FALSE
  /\ drained = FALSE
  /\ sawAck = FALSE
  /\ sawAckClear = FALSE
  /\ sawDone = FALSE
  /\ polls = 0
  /\ fails = 0
  /\ inflight = 0
  /\ lastw = NoWrite
  /\ stage = ZeroBlock
  /\ stageHi = -1
  /\ size_out = -1
  /\ dreg = [src |-> 0, dst |-> 0, length |-> 0, fill |-> 0, control |-> 0]
  /\ dstat = [busy |-> FALSE, pos |-> 0]
  /\ ram = [a \in RamCells |-> 0]
  /\ expect = [a \in RamCells |-> 0]
  /\ dpc = "idle"
  /\ dcall = NoDma
  /\ probe = 0
  /\ derr = FALSE
  /\ prev = "none"
  /\ cursor_row = 0
  /\ cursor_col = 0
  /\ tlast = NoTerm

(***************************************************************************)
(* Address validation and the register programming of each operation.      *)
(***************************************************************************)
\* Variant: the upper bound of the window is not checked.
InWindowLowerOnly(a) == a >= WINDOW_LO

\* Variant: the upper bound of the window is taken as its last address.
InWindowClosed(a) == ~(a < WINDOW_LO \/ a > WINDOW_HI)

\* if (dest_addr < 0x10000000 || dest_addr >= 0x14000000) return -10;
InWindow(a) == ~(a < WINDOW_LO \/ a >= WINDOW_HI)

\* Variant: the slot id register is left as the operation before set it.
OpenWritesKeepSlot ==
  << <<"param_addr", CPU_TO_BRIDGE_ADDR(PARAM_BUFFER_ADDR)>>,
     <<"resp_addr", CPU_TO_BRIDGE_ADDR(RESP_BUFFER_ADDR)>>,
     <<"command", "OPENFILE">> >>

\* Variant: the command is triggered before the registers are programmed.
ReadWritesCommandFirst(slot, off, dest, len) ==
  << <<"command", "READ">>,
     <<"slot_id", slot>>,
     <<"slot_offset", off>>,
     <<"bridge_addr", CPU_TO_BRIDGE_ADDR(dest)>>,
     <<"length", len>> >>

\* Variant: the open also clears the length register.
OpenWritesClearingLength ==
  << <<"slot_id", 0>>,
     <<"length", U32(0)>>,
     <<"param_addr", CPU_TO_BRIDGE_ADDR(PARAM_BUFFER_ADDR)>>,
     <<"resp_addr", CPU_TO_BRIDGE_ADDR(RESP_BUFFER_ADDR)>>,
     <<"command", "OPENFILE">> >>

OpenWrites ==
  << <<"slot_id", 0>>,
     <<"param_addr", CPU_TO_BRIDGE_ADDR(PARAM_BUFFER_ADDR)>>,
     <<"resp_addr", CPU_TO_BRIDGE_ADDR(RESP_BUFFER_ADDR)>>,
     <<"command", "OPENFILE">> >>

ReadWrites(slot, off, dest, len) ==
  << <<"slot_id", slot>>,
     <<"slot_offset", off>>,
     <<"bridge_addr", CPU_TO_BRIDGE_ADDR(dest)>>,
     <<"length", len>>,
     <<"command", "READ">> >>

\* Variant: the source address is handed to the bridge untranslated.
WriteWritesUntranslated(slot, off, src, len) ==
  << <<"slot_id", slot>>,
     <<"slot_offset", off>>,
     <<"bridge_addr", src>>,
     <<"length", len>>,
     <<"command", "WRITE">> >>

WriteWrites(slot, off, src, len) ==
  << <<"slot_id", slot>>,
     <<"slot_offset", off>>,
     <<"bridge_addr", CPU_TO_BRIDGE_ADDR(src)>>,
     <<"length", len>>,
     <<"command", "WRITE">> >>

\* Variant: the operation returns without waiting for the command.
PcFireAndForget == "idle"

\* Where an operation goes after writing the command register:
\* return dataslot_wait_complete();
PcAfterCommand == "wait_entry"

\* Variant: dataslot_read returns the requested length on success.
OpReturnCountForRead(c, w) ==
  IF c.op \in {"load", "read"}
  THEN IF w < 0 THEN w ELSE ToI32(c.length)
  ELSE w

\* What the operation returns for the waiter's result w.
OpReturn(c, w) ==
  IF c.op = "load"
  THEN IF w < 0 THEN w ELSE ToI32(c.length)
  ELSE w

\* No status read has been made by the waiter yet.
FreshWait ==
  /\ entryAck' = FALSE
  /\ drained' = FALSE
  /\ sawAck' = FALSE
  /\ sawAckClear' = FALSE
  /\ sawDone' = FALSE
  /\ polls' = 0
  /\ fails' = 0

\* The registers are programmed, the command is triggered and the waiter
\* is entered (volatile int timeout = TIMEOUT_LOOPS).
Trigger(c, ws) ==
  /\ regs' = ApplyWrites(regs, ws)
  /\ wlog' = ws
  /\ bstate' = [bstate EXCEPT !.pending = TRUE]
  /\ inflight' = inflight + 1
  /\ call' = c
  /\ pc' = PcAfterCommand
  /\ timeout' = TIMEOUT_LOOPS
  /\ err' = 0
  /\ wres' = 0
  /\ result' = 0
  /\ kind' = "running"
  /\ FreshWait
  /\ UNCHANGED <<status, mem, store>>

\* return -10: nothing is written and the waiter is not run.
Reject(c) ==
  /\ call' = c
  /\ result' = -10
  /\ kind' = "invalid"
  /\ wlog' = <<>>
  /\ pc' = "ret"
  /\ timeout' = 0
  /\ err' = 0
  /\ wres' = 0
  /\ FreshWait
  /\ UNCHANGED <<devVars, inflight>>

ReadBody(c) ==
  IF ~InWindow(c.addr)
  THEN Reject(c)
  ELSE Trigger(c, ReadWrites(c.slot, c.offset, c.addr, c.length))

\* Variant: the copy fills the whole field and the terminator is put one
\* byte past it.
FilenameCopyWholeField == FNAME_FIELD

\* The number of filename bytes strncpy may copy, and the index of the
\* terminator: strncpy(param->filename, filename, 255);
\* param->filename[255] = '\0';
FilenameCopyMax == FILENAME_COPY_MAX

\* The filename field after memset, strncpy and the terminator; name is the
\* C string without its NUL.  Index i here is filename[i - 1].
StageFilename(name) ==
  LET n == FilenameCopyMax
      copied == [i \in 1 .. FNAME_FIELD |->
                   IF i <= n /\ i <= Len(name) THEN name[i] ELSE 0]
      field == [i \in 1 .. FNAME_FIELD |-> IF i = n + 1 THEN 0 ELSE copied[i]]
      used == {i \in 1 .. FNAME_FIELD : field[i] # 0}
      \* name holds no NUL, so the bytes that are not NUL are a prefix
      last == Cardinality(used)
  IN  [i \in 1 .. last |-> field[i]]

\* The highest offset of the block written by lines 74-78: the memset and
\* the size word end at sizeof(*param) - 1, the terminator is at offset n.
StageExtent ==
  IF FilenameCopyMax > PARAM_BLOCK_SIZE - 1
  THEN FilenameCopyMax ELSE PARAM_BLOCK_SIZE - 1

\* The operations that take arguments draw them from the given sets.
dataslot_open_file(names, flagset, sizes) ==
  /\ pc = "idle"
  /\ \E n \in names, f \in flagset, z \in sizes :
       /\ stage' = [filename |-> StageFilename(n), flags |-> f, size |-> z]
       /\ stageHi' = (IF StageExtent > stageHi THEN StageExtent ELSE stageHi)
       /\ Trigger([op |-> "open", slot |-> 0, offset |-> 0, addr |-> 0,
                   length |-> U32(0), name |-> n, flags |-> f, size |-> z],
                  OpenWrites)

\* Variant: every slot without a case of its own gets the size of slot 0.
SlotSizeNoDefault(id) ==
  CASE id = 1 -> 20 * 1024 * 1024
    [] OTHER -> 4 * 1024 * 1024

\* switch (slot_id) { case 0: 4 MB; case 1: 20 MB; default: 1 MB }
SlotSize(id) ==
  CASE id = 0 -> 4 * 1024 * 1024
    [] id = 1 -> 20 * 1024 * 1024
    [] OTHER -> 1 * 1024 * 1024

\* dataslot_get_size(slot_id, size_out); ptr 0 is NULL, any other value is
\* the address of the caller's word.
dataslot_get_size(slots, ptrs) ==
  /\ pc = "idle"
  /\ \E s \in slots, p \in ptrs :
       /\ call' = [op |-> "get_size", slot |-> ToU16(s), offset |-> 0,
                   addr |-> p, length |-> U32(0)]
       /\ IF p = 0
          THEN result' = -1 /\ size_out' = size_out
          ELSE result' = 0 /\ size_out' = SlotSize(ToU16(s))
       /\ kind' = "local"
       /\ wlog' = <<>>
       /\ pc' = "ret"
       /\ timeout' = 0
       /\ err' = 0
       /\ wres' = 0
       /\ FreshWait
       /\ UNCHANGED <<devVars, inflight>>

dataslot_read(slots, offsets, addrs, lengths) ==
  /\ pc = "idle"
  /\ \E s \in slots, o \in offsets, a \in addrs, l \in lengths :
       ReadBody([op |-> "read", slot |-> s, offset |-> o,
                 addr |-> a, length |-> l])

dataslot_write(slots, offsets, addrs, lengths) ==
  /\ pc = "idle"
  /\ \E s \in slots, o \in offsets, a \in addrs, l \in lengths :
       LET c == [op |-> "write", slot |-> ToU16(s), offset |-> o,
                 addr |-> a, length |-> l]
       IN  IF ~InWindow(c.addr)
           THEN Reject(c)
           ELSE Trigger(c, WriteWrites(c.slot, c.offset, c.addr, c.length))

\* Variant: the load starts at the second byte of the slot.
dataslot_load_at_one(slots, addrs, lengths) ==
  /\ pc = "idle"
  /\ \E s \in slots, a \in addrs, l \in lengths :
       ReadBody([op |-> "load", slot |-> ToU16(s), offset |-> 1,
                 addr |-> a, length |-> l])

\* int result = dataslot_read(slot_id, 0, dest, max_length);
dataslot_load(slots, addrs, lengths) ==
  /\ pc = "idle"
  /\ \E s \in slots, a \in addrs, l \in lengths :
       ReadBody([op |-> "load", slot |-> ToU16(s), offset |-> 0,
                 addr |-> a, length |-> l])

(***************************************************************************)
(* dataslot_wait_complete.  Every read of DS_STATUS is a step of its own,   *)
(* so the bridge may change the status between any two reads.              *)
(***************************************************************************)
\* Variant: a waiter without the drain phase.
NaiveStaleAck(s) == FALSE

\* Variant: a waiter that remembers it has run before and drains only in
\* the first call.
StaleAckFirstCallOnly(s) == DS_STATUS_ACK(s) /\ prev = "none"

\* if (status & DS_STATUS_ACK): the drain loop is entered.
StaleAck(s) == DS_STATUS_ACK(s)

\* Variant: a loop without a countdown.
NeverTimedOut(t) == FALSE

\* if (--timeout <= 0), applied to the decremented countdown.
TimedOut(t) == t <= 0

\* Variant: the countdown is not reset before the ack loop.
AckBudgetCarriedOver(t) == t

\* timeout = TIMEOUT_LOOPS; before the ack loop and before the done loop.
AckBudget(t) == TIMEOUT_LOOPS
DoneBudget(t) == TIMEOUT_LOOPS

\* Variant: one code for every timeout.
GenericTimeoutCode(phase) == -1

\* return -3; return -1; return -2;
TimeoutCode(phase) ==
  CASE phase = "drain" -> -3
    [] phase = "ack" -> -1
    [] phase = "done" -> -2

TimeoutKind(phase) ==
  CASE phase = "drain" -> "clear_timeout"
    [] phase = "ack" -> "ack_timeout"
    [] phase = "done" -> "done_timeout"

\* Variant: the error field is returned without negation.
WaitResultNotNegated(e) == e

\* return err ? -err : 0;
WaitResult(e) == IF e # 0 THEN -e ELSE 0

\* What a read of DS_STATUS showed, added to the call's record.
Observe(s) ==
  /\ sawAck' = (sawAck \/ DS_STATUS_ACK(s))
  /\ sawAckClear' = (sawAckClear \/ ~DS_STATUS_ACK(s))
  /\ sawDone' = (sawDone \/ DS_STATUS_DONE(s))

\* Variant: after a timeout the operation runs the waiter again.
ReturnRetrying(w, k) ==
  IF k # "completed"
  THEN /\ wres' = w
       /\ result' = 0
       /\ kind' = "running"
       /\ pc' = "wait_entry"
       /\ inflight' = inflight
  ELSE /\ wres' = w
       /\ result' = OpReturn(call, w)
       /\ kind' = k
       /\ pc' = "ret"
       /\ inflight' = 0

\* The waiter returns w and the operation returns to its caller.
Return(w, k) ==
  /\ wres' = w
  /\ result' = OpReturn(call, w)
  /\ kind' = k
  /\ pc' = "ret"
  /\ inflight' = 0

\* One poll of a loop that did not see its condition: --timeout, then
\* either the timeout return or the next poll.
FailedPoll(phase) ==
  /\ timeout' = timeout - 1
  /\ fails' = fails + 1
  /\ IF TimedOut(timeout')
     THEN Return(TimeoutCode(phase), TimeoutKind(phase))
     ELSE UNCHANGED <<pc, wres, result, kind, inflight>>

\* term_printf("wait: initial status=%x\n", DS_STATUS);
WaitEntry ==
  /\ pc = "wait_entry"
  /\ Observe(status)
  /\ entryAck' = DS_STATUS_ACK(status)
  /\ pc' = "wait_check"
  /\ UNCHANGED <<devVars, call, timeout, err, wres, result, wlog, kind,
                 drained, polls, fails, inflight>>

\* status = DS_STATUS; if (status & DS_STATUS_ACK) ...
WaitCheck ==
  /\ pc = "wait_check"
  /\ Observe(status)
  /\ drained' = StaleAck(status)
  /\ IF StaleAck(status)
     THEN pc' = "drain" /\ timeout' = timeout
     ELSE pc' = "ack" /\ timeout' = AckBudget(timeout)
  /\ UNCHANGED <<devVars, call, err, wres, result, wlog, kind, entryAck,
                 polls, fails, inflight>>

\* while (DS_STATUS & DS_STATUS_ACK) { if (--timeout <= 0) return -3; }
DrainPoll ==
  /\ pc = "drain"
  /\ Observe(status)
  /\ polls' = polls + 1
  /\ IF DS_STATUS_ACK(status)
     THEN FailedPoll("drain")
     ELSE /\ pc' = "ack"
          /\ timeout' = AckBudget(timeout)
          /\ fails' = 0
          /\ UNCHANGED <<wres, result, kind, inflight>>
  /\ UNCHANGED <<devVars, call, err, wlog, entryAck, drained>>

\* Variant: the acknowledgment loop also ends on DONE.
AckPollAcceptsDone ==
  /\ pc = "ack"
  /\ Observe(status)
  /\ polls' = polls + 1
  /\ IF ~DS_STATUS_ACK(status) /\ ~DS_STATUS_DONE(status)
     THEN FailedPoll("ack")
     ELSE /\ pc' = "done"
          /\ timeout' = DoneBudget(timeout)
          /\ fails' = 0
          /\ UNCHANGED <<wres, result, kind, inflight>>
  /\ UNCHANGED <<devVars, call, err, wlog, entryAck, drained>>

\* while (!(DS_STATUS & DS_STATUS_ACK)) { if (--timeout <= 0) return -1; }
AckPoll ==
  /\ pc = "ack"
  /\ Observe(status)
  /\ polls' = polls + 1
  /\ IF ~DS_STATUS_ACK(status)
     THEN FailedPoll("ack")
     ELSE /\ pc' = "done"
          /\ timeout' = DoneBudget(timeout)
          /\ fails' = 0
          /\ UNCHANGED <<wres, result, kind, inflight>>
  /\ UNCHANGED <<devVars, call, err, wlog, entryAck, drained>>

\* Variant: on the done-phase timeout the waiter clears the command
\* register to abort the command.
DonePollAborting ==
  /\ pc = "done"
  /\ Observe(status)
  /\ polls' = polls + 1
  /\ IF ~DS_STATUS_DONE(status)
     THEN /\ FailedPoll("done")
          /\ regs' = IF TimedOut(timeout')
                     THEN [regs EXCEPT !.command = "NONE"] ELSE regs
     ELSE /\ pc' = "final"
          /\ fails' = 0
          /\ UNCHANGED <<regs, timeout, wres, result, kind, inflight>>
  /\ UNCHANGED <<status, bstate, mem, store, call, err, wlog, entryAck,
                 drained>>

\* while (!(DS_STATUS & DS_STATUS_DONE)) { if (--timeout <= 0) return -2; }
DonePoll ==
  /\ pc = "done"
  /\ Observe(status)
  /\ polls' = polls + 1
  /\ IF ~DS_STATUS_DONE(status)
     THEN FailedPoll("done")
     ELSE /\ pc' = "final"
          /\ fails' = 0
          /\ UNCHANGED <<timeout, wres, result, kind, inflight>>
  /\ UNCHANGED <<devVars, call, err, wlog, entryAck, drained>>

\* final_status = DS_STATUS; err = field; return err ? -err : 0;
WaitFinal ==
  /\ pc = "final"
  /\ Observe(status)
  /\ err' = ErrField(status)
  /\ Return(WaitResult(err'), "completed")
  /\ UNCHANGED <<devVars, call, timeout, wlog, entryAck, drained, polls,
                 fails>>

\* The caller takes the returned value and goes on; the call's locals and
\* the record of its status reads are gone.
CallerResumes ==
  /\ pc = "ret"
  /\ pc' = "idle"
  /\ call' = NoCall
  /\ timeout' = 0
  /\ err' = 0
  /\ wres' = 0
  /\ result' = 0
  /\ wlog' = <<>>
  /\ kind' = "none"
  /\ FreshWait
  /\ UNCHANGED <<devVars, inflight>>

WaiterStep ==
  WaitEntry \/ WaitCheck \/ DrainPoll \/ AckPoll \/ DonePoll \/ WaitFinal

(***************************************************************************)
(* The bridge as the waiter sees it: the status register may take any      *)
(* value before any status read.  The status is read only inside the       *)
(* waiter, so a change made between two calls is the same change made      *)
(* before the next call's first read.                                      *)
(***************************************************************************)
BridgeDrive ==
  /\ pc \notin {"idle", "ret"}
  /\ \E s \in StatusVals \ {status} : status' = s
  /\ UNCHANGED <<regs, bstate, mem, store, cpuVars, histVars, apiVars, dmaVars, prev, termVars>>

\* Steps that leave the record of the last write, the parameter block and
\* the caller's size word alone.
Untracked == UNCHANGED <<lastw, apiVars, dmaVars, prev, termVars>>

Next ==
  \/ dataslot_open_file({<<>>}, {0}, {0}) /\ UNCHANGED <<lastw, size_out, dmaVars, prev, termVars>>
  \/ dataslot_read(SlotIds, Offsets, Addrs, Lengths) /\ Untracked
  \/ dataslot_write(SlotIds, Offsets, Addrs, Lengths) /\ Untracked
  \/ dataslot_load(SlotIds, Addrs, Lengths) /\ Untracked
  \/ WaiterStep /\ Untracked
  \/ CallerResumes /\ Untracked
  \/ BridgeDrive

Spec == Init /\ [][Next]_vars

\* The same operations with one valid and one invalid buffer address, for
\* the properties that do not depend on the arguments.  The waiter is a busy
\* loop on the only thread of control: the CPU keeps taking its steps.
WaitNext ==
  \/ dataslot_open_file({<<>>}, {0}, {0}) /\ UNCHANGED <<lastw, size_out, dmaVars, prev, termVars>>
  \/ dataslot_read({1}, {1}, {WINDOW_LO, WINDOW_HI}, {U32(2)}) /\ Untracked
  \/ dataslot_write({1}, {1}, {WINDOW_LO, WINDOW_HI}, {U32(2)}) /\ Untracked
  \/ dataslot_load({1}, {WINDOW_LO, WINDOW_HI}, {U32(2)}) /\ Untracked
  \/ WaiterStep /\ Untracked
  \/ CallerResumes /\ Untracked
  \/ BridgeDrive

FairSpec ==
  Init /\ [][WaitNext]_vars /\ WF_vars(WaiterStep /\ Untracked)

(***************************************************************************)
(* A bridge that stores the bytes it is given.  It takes the commands one  *)
(* at a time: it retires the status of the command before, acknowledges    *)
(* the pending command and latches its registers, moves the bytes, and     *)
(* reports DONE.  It may be as slow as it likes at every step.             *)
(***************************************************************************)
Bytes == {0, 1}
ClearStatus == [ack |-> FALSE, done |-> FALSE, err |-> 0]

\* The CPU address of the memory the bridge reaches at bridge address b.
BridgeCell(b) == b + WINDOW_LO

MemAt(m, a) == IF a \in DOMAIN m THEN m[a] ELSE 0
StoreAt(st, c) == IF c \in DOMAIN st THEN st[c] ELSE 0

\* READ: r.length bytes of slot r.slot_id from r.slot_offset go to memory at
\* r.bridge_addr.
ReadTransfer(m, st, r) ==
  [a \in DOMAIN m |->
     LET i == a - BridgeCell(r.bridge_addr)
     IN  IF i >= 0 /\ i < Low(r.length)
         THEN StoreAt(st, <<r.slot_id, r.slot_offset + i>>)
         ELSE m[a]]

\* WRITE: r.length bytes of memory at r.bridge_addr go to slot r.slot_id at
\* r.slot_offset.
WriteTransfer(st, m, r) ==
  [c \in DOMAIN st |->
     LET i == c[2] - r.slot_offset
     IN  IF c[1] = r.slot_id /\ i >= 0 /\ i < Low(r.length)
         THEN MemAt(m, BridgeCell(r.bridge_addr + i))
         ELSE st[c]]

BridgeRetire ==
  /\ bstate.pending /\ ~bstate.busy
  /\ status # ClearStatus
  /\ status' = ClearStatus
  /\ UNCHANGED <<regs, bstate, mem, store, cpuVars, histVars, apiVars, dmaVars, prev, termVars>>

BridgeAccept ==
  /\ bstate.pending /\ ~bstate.busy
  /\ status = ClearStatus
  /\ status' = [status EXCEPT !.ack = TRUE]
  /\ bstate' = [pending |-> FALSE, busy |-> TRUE, r |-> regs]
  /\ UNCHANGED <<regs, mem, store, cpuVars, histVars, apiVars, dmaVars, prev, termVars>>

BridgeFinish ==
  /\ bstate.busy
  /\ mem' = IF bstate.r.command = "READ"
            THEN ReadTransfer(mem, store, bstate.r) ELSE mem
  /\ store' = IF bstate.r.command = "WRITE"
              THEN WriteTransfer(store, mem, bstate.r) ELSE store
  /\ status' = [ack |-> TRUE, done |-> TRUE, err |-> 0]
  /\ bstate' = [bstate EXCEPT !.busy = FALSE]
  /\ UNCHANGED <<regs, cpuVars, histVars, apiVars, dmaVars, prev, termVars>>

\* The command fails: nothing is moved and the error field is set.
BridgeFail ==
  /\ bstate.busy
  /\ status' = [ack |-> TRUE, done |-> TRUE, err |-> MaxErr]
  /\ bstate' = [bstate EXCEPT !.busy = FALSE]
  /\ UNCHANGED <<regs, mem, store, cpuVars, histVars, apiVars, dmaVars, prev, termVars>>

\* Between two calls the caller fills its buffers.
CallerStores ==
  /\ pc = "idle"
  /\ \E a \in MemCells, v \in Bytes : mem' = [mem EXCEPT ![a] = v]
  /\ UNCHANGED <<regs, status, bstate, store, cpuVars, histVars, apiVars, dmaVars, prev, termVars>>

\* The bytes of the caller's buffer of call c.
Buffer(m, c) == [i \in 1 .. Low(c.length) |-> MemAt(m, c.addr + i - 1)]

SameRange(w, c) ==
  /\ w # NoWrite
  /\ w.slot = c.slot /\ w.offset = c.offset /\ Len(w.data) = Low(c.length)

Overlaps(w, c) ==
  /\ w # NoWrite
  /\ w.slot = c.slot
  /\ w.offset < c.offset + Low(c.length)
  /\ c.offset < w.offset + Len(w.data)

\* lastw over one step of the CPU: a write that is triggered on a range
\* that overlaps the recorded one drops the record, and a write that
\* returns 0 is recorded with the bytes of its buffer.
TrackWrites ==
  lastw' =
    IF pc = "idle" /\ call'.op = "write" /\ wlog' # <<>>
    THEN IF Overlaps(lastw, call') THEN NoWrite ELSE lastw
    ELSE IF pc # "ret" /\ pc' = "ret" /\ call.op = "write" /\ result' = 0
         THEN [slot |-> call.slot, offset |-> call.offset,
               data |-> Buffer(mem, call)]
         ELSE lastw

StoreSlots == {1}
StoreAddrs == {WINDOW_LO, WINDOW_LO + 1}
StoreLengths == {U32(2)}

StoreStep == TrackWrites /\ UNCHANGED <<apiVars, dmaVars, prev, termVars>>

StoreNext ==
  \/ dataslot_read(StoreSlots, Offsets, StoreAddrs, StoreLengths) /\ StoreStep
  \/ dataslot_write(StoreSlots, Offsets, StoreAddrs, StoreLengths) /\ StoreStep
  \/ WaiterStep /\ StoreStep
  \/ CallerResumes /\ StoreStep
  \/ CallerStores
  \/ BridgeRetire
  \/ BridgeAccept
  \/ BridgeFinish
  \/ BridgeFail

StoreSpec == Init /\ [][StoreNext]_vars

(***************************************************************************)
(* dataslot_open_file with filenames around the length of the filename     *)
(* field, and dataslot_get_size.                                           *)
(***************************************************************************)
\* A filename of n bytes, none of them NUL.
NameOf(n) == [i \in 1 .. n |-> 1 + (i % 3)]
NameLens == {0, 1} \cup (FNAME_FIELD - 2 .. FNAME_FIELD + MaxNameOver)
Names == {NameOf(n) : n \in NameLens}
SizeSlots == {0, 1, 2}
SizePtrs == {0, RESP_BUFFER_ADDR}

ApiNext ==
  \/ dataslot_open_file(Names, {0, 1}, {4096})
        /\ UNCHANGED <<lastw, size_out, dmaVars, prev, termVars>>
  \/ dataslot_get_size(SizeSlots, SizePtrs)
        /\ UNCHANGED <<lastw, stage, stageHi, dmaVars, prev, termVars>>
  \/ WaiterStep /\ Untracked
  \/ CallerResumes /\ Untracked
  \/ BridgeRetire
  \/ BridgeAccept
  \/ BridgeFinish

ApiSpec == Init /\ [][ApiNext]_vars

(***************************************************************************)
(* One dataslot_read after another, with the outcome of the previous call  *)
(* kept for the next one.                                                  *)
(***************************************************************************)
TrackPrev ==
  /\ prev' = IF pc = "ret" /\ pc' = "idle" THEN kind ELSE prev
  /\ UNCHANGED <<lastw, apiVars, dmaVars, termVars>>

RetryNext ==
  \/ dataslot_read({1}, {1}, {WINDOW_LO, WINDOW_HI}, {U32(2)}) /\ TrackPrev
  \/ WaiterStep /\ TrackPrev
  \/ CallerResumes /\ TrackPrev
  \/ BridgeDrive

RetrySpec == Init /\ [][RetryNext]_vars

(***************************************************************************)
(* A bridge that drives ACK and DONE one at a time: it drops the old ACK,  *)
(* raises ACK for the command it takes, and drives DONE when it finishes,  *)
(* so the DONE of the command before may still be set in between.          *)
(***************************************************************************)
BridgeDropAck ==
  /\ bstate.pending /\ ~bstate.busy
  /\ status.ack
  /\ status' = [status EXCEPT !.ack = FALSE]
  /\ UNCHANGED <<regs, bstate, mem, store, cpuVars, histVars, apiVars,
                 dmaVars, prev, termVars>>

BridgeAcceptKeepingDone ==
  /\ bstate.pending /\ ~bstate.busy
  /\ ~status.ack
  /\ status' = [status EXCEPT !.ack = TRUE]
  /\ bstate' = [pending |-> FALSE, busy |-> TRUE, r |-> regs]
  /\ UNCHANGED <<regs, mem, store, cpuVars, histVars, apiVars, dmaVars, prev, termVars>>

StaleDoneNext ==
  \/ dataslot_read({1}, {1}, {WINDOW_LO, WINDOW_HI}, {U32(2)}) /\ Untracked
  \/ WaiterStep /\ Untracked
  \/ CallerResumes /\ Untracked
  \/ BridgeDropAck
  \/ BridgeAcceptKeepingDone
  \/ BridgeFinish

StaleDoneSpec == Init /\ [][StaleDoneNext]_vars

(***************************************************************************)
(* dataslot_read and dataslot_write with buffer addresses at and around    *)
(* both ends of the shared window.                                         *)
(***************************************************************************)
EdgeAddrs == {0, WINDOW_LO - 1, WINDOW_LO, WINDOW_HI - 1, WINDOW_HI}

AddrNext ==
  \/ dataslot_read({1}, {0}, EdgeAddrs, {U32(1), U32(2)}) /\ Untracked
  \/ dataslot_write({1}, {0}, EdgeAddrs, {U32(1), U32(2)}) /\ Untracked
  \/ WaiterStep /\ Untracked
  \/ CallerResumes /\ Untracked
  \/ BridgeDrive

AddrSpec == Init /\ [][AddrNext]_vars

(***************************************************************************)
(* dataslot_open_file and dataslot_read, one after the other, against the  *)
(* storing bridge.                                                         *)
(***************************************************************************)
OrderNext ==
  \/ dataslot_open_file({NameOf(1), NameOf(FNAME_FIELD)}, {0, 1}, {4096})
        /\ UNCHANGED <<lastw, size_out, dmaVars, prev, termVars>>
  \/ dataslot_read({1}, {1}, {WINDOW_LO, WINDOW_HI}, {U32(2)}) /\ Untracked
  \/ WaiterStep /\ Untracked
  \/ CallerResumes /\ Untracked
  \/ BridgeRetire
  \/ BridgeAccept
  \/ BridgeFinish

OrderSpec == Init /\ [][OrderNext]_vars

(***************************************************************************)
(* dataslot_load with lengths from both halves of the range of uint32_t.   *)
(***************************************************************************)
WideLengths ==
  {U32(2), [hi |-> 32767, lo |-> 65535], [hi |-> 32768, lo |-> 0],
   [hi |-> 65535, lo |-> 65535]}

WideNext ==
  \/ dataslot_load({1}, {WINDOW_LO, WINDOW_HI}, WideLengths) /\ Untracked
  \/ WaiterStep /\ Untracked
  \/ CallerResumes /\ Untracked
  \/ BridgeDrive

WideSpec == Init /\ [][WideNext]_vars

(***************************************************************************)
(* The DMA fill/copy engine and the CPU's use of it (dma_accel.h, and the  *)
(* DMA tests of firmware_test/main.c).  The engine itself is hardware: it  *)
(* raises BUSY when CONTROL is written with the start bit, moves one word  *)
(* per step and drops BUSY after the last word.  The CPU's loads and       *)
(* stores are single steps that may fall between any two steps of the      *)
(* engine; a stalled access is one that falls after the last of them.      *)
(***************************************************************************)
\* The word addresses of the length bytes from a.
Range(a, length) == {a + 4 * i : i \in 0 .. (length \div 4) - 1}
DstRange(c) == Range(c.dst, c.length)
SrcRange(c) == IF c.op = "copy" THEN Range(c.src, c.length) ELSE {}
RamAt(m, a) == IF a \in DOMAIN m THEN m[a] ELSE 0

\* Variant: the fill is sent to the CPU's SDRAM area.
DmaFillRegsElsewhere(r, dst, length, fill) ==
  [r EXCEPT !.dst = SDRAM_DMA_CPU, !.length = length, !.fill = fill,
            !.control = DMA_CTRL_START]

\* DMA_DST_ADDR = dst; DMA_LENGTH = length; DMA_FILL_DATA = fill_value;
\* DMA_CONTROL = DMA_CTRL_START;
DmaFillRegs(r, dst, length, fill) ==
  [r EXCEPT !.dst = dst, !.length = length, !.fill = fill,
            !.control = DMA_CTRL_START]

\* DMA_SRC_ADDR = src; DMA_DST_ADDR = dst; DMA_LENGTH = length;
\* DMA_CONTROL = DMA_CTRL_START | DMA_CTRL_COPY;
DmaCopyRegs(r, src, dst, length) ==
  [r EXCEPT !.src = src, !.dst = dst, !.length = length,
            !.control = DMA_CTRL_START + DMA_CTRL_COPY]

\* The write of CONTROL with the start bit starts the engine.
DmaStart(c, r) ==
  /\ dpc = "idle"
  /\ ~dstat.busy
  /\ dreg' = r
  /\ dstat' = [busy |-> TRUE, pos |-> 0]
  /\ dcall' = c
  /\ dpc' = "started"
  /\ probe' = 0
  /\ expect' = [a \in RamCells |->
                  IF a \in DstRange(c)
                  THEN IF c.op = "copy"
                       THEN RamAt(ram, c.src + (a - c.dst)) ELSE c.fill
                  ELSE expect[a]]
  /\ UNCHANGED <<ram, derr>>

dma_fill(dsts, lengths, fills) ==
  \E d \in dsts, l \in lengths, f \in fills :
    DmaStart([op |-> "fill", src |-> 0, dst |-> d, length |-> l, fill |-> f],
             DmaFillRegs(dreg, d, l, f))

dma_copy(srcs, dsts, lengths) ==
  \E sa \in srcs, d \in dsts, l \in lengths :
    DmaStart([op |-> "copy", src |-> sa, dst |-> d, length |-> l, fill |-> 0],
             DmaCopyRegs(dreg, sa, d, l))

\* Variant: dma_wait returns without looking at the BUSY bit.
DmaStillBusyNever(st) == FALSE

\* DMA_STATUS & DMA_STATUS_BUSY
DmaStillBusy(st) == st.busy

\* The CPU goes from its own work to dma_wait, and one poll of
\* while (DMA_STATUS & DMA_STATUS_BUSY) ;
dma_wait ==
  /\ dpc \in {"started", "waiting"}
  /\ dpc' = IF DmaStillBusy(dstat) THEN "waiting" ELSE "ret"
  /\ dpc' # dpc
  /\ UNCHANGED <<dreg, dstat, ram, expect, dcall, probe, derr>>

\* The caller goes on after dma_wait has returned.
DmaCallerResumes ==
  /\ dpc = "ret"
  /\ dpc' = "idle"
  /\ dcall' = NoDma
  /\ probe' = 0
  /\ UNCHANGED <<dreg, dstat, ram, expect, derr>>

\* A store of the CPU: to the words of the DMA target between two DMAs
\* (the source of a later copy), and to any word outside the ranges of the
\* DMA while one is started.
CpuStore(values) ==
  /\ dpc \in {"idle", "started"}
  /\ \E a \in IF dpc = "idle"
              THEN TargetCells
              ELSE RamCells \ (DstRange(dcall) \cup SrcRange(dcall)),
        v \in values :
       /\ ram[a] # v
       /\ ram' = [ram EXCEPT ![a] = v]
       /\ expect' = [expect EXCEPT ![a] = v]
  /\ UNCHANGED <<dreg, dstat, dpc, dcall, probe, derr>>

\* A load of the CPU from one of its areas while a DMA is started,
\* compared with the value the CPU stored there.
CpuLoad ==
  /\ dpc = "started"
  /\ \E a \in CpuAreaCells :
       /\ probe' = a
       /\ probe # a
       /\ derr' = (derr \/ ram[a] # expect[a])
  /\ UNCHANGED <<dreg, dstat, ram, expect, dpc, dcall>>

\* The engine moves one word.
DmaTransfer ==
  /\ dstat.busy
  /\ 4 * dstat.pos < dreg.length
  /\ LET a == dreg.dst + 4 * dstat.pos
         v == IF dreg.control = DMA_CTRL_START + DMA_CTRL_COPY
              THEN RamAt(ram, dreg.src + 4 * dstat.pos) ELSE dreg.fill
     IN  ram' = [x \in DOMAIN ram |-> IF x = a THEN v ELSE ram[x]]
  /\ dstat' = [dstat EXCEPT !.pos = dstat.pos + 1]
  /\ UNCHANGED <<dreg, expect, dpc, dcall, probe, derr>>

\* The engine drops BUSY after the last word.
DmaDone ==
  /\ dstat.busy
  /\ 4 * dstat.pos >= dreg.length
  /\ dstat' = [dstat EXCEPT !.busy = FALSE]
  /\ UNCHANGED <<dreg, ram, expect, dpc, dcall, probe, derr>>

DmaFrame == UNCHANGED <<devVars, cpuVars, histVars, apiVars, prev, termVars>>
CpuPatterns == {1}
FillPatterns == {2}

DmaNext ==
  \/ dma_fill({DMA_TARGET}, {4 * DmaWords}, FillPatterns) /\ DmaFrame
  \/ dma_copy({DMA_TARGET}, {DMA_TARGET2}, {4 * DmaWords}) /\ DmaFrame
  \/ dma_wait /\ DmaFrame
  \/ DmaCallerResumes /\ DmaFrame
  \/ CpuStore(CpuPatterns) /\ DmaFrame
  \/ CpuLoad /\ DmaFrame
  \/ DmaTransfer /\ DmaFrame
  \/ DmaDone /\ DmaFrame

DmaSpec == Init /\ [][DmaNext]_vars

(***************************************************************************)
(* The text terminal (terminal.c).  The VRAM is written and, in scroll_up, *)
(* copied, but never read to decide anything: the cursor is the only state *)
(* the calls depend on.  Of the VRAM the model keeps the indices each call *)
(* touches: the index of a character store and the highest index that a    *)
(* clearing or scrolling loop reaches.                                     *)
(***************************************************************************)
\* Variant: the row past the last one is accepted.
RowInRangeClosed(row) == row >= 0 /\ row <= TERM_ROWS

\* if (row >= 0 && row < TERM_ROWS) cursor_row = row;
RowInRange(row) == row >= 0 /\ row < TERM_ROWS

\* if (col >= 0 && col < TERM_COLS) cursor_col = col;
ColInRange(col) == col >= 0 /\ col < TERM_COLS

\* The loop of term_clear: TERM_VRAM[i] = ' ' for i < TERM_SIZE.
ClearTop == TERM_SIZE - 1

\* scroll_up: copies TERM_VRAM[i + TERM_COLS] to TERM_VRAM[i] for
\* i < (TERM_ROWS - 1) * TERM_COLS, then blanks the last line; the highest
\* index it reaches is the larger of the last one read and the last one stored.
scroll_up ==
  LET lastRead == ((TERM_ROWS - 1) * TERM_COLS - 1) + TERM_COLS
      lastStore == (TERM_ROWS - 1) * TERM_COLS + (TERM_COLS - 1)
  IN  IF lastRead > lastStore THEN lastRead ELSE lastStore

term_clear ==
  /\ cursor_row' = 0
  /\ cursor_col' = 0
  /\ tlast' = [NoTerm EXCEPT !.op = "clear", !.top = ClearTop]

\* term_init resets the cursor and calls term_clear.
term_init ==
  /\ cursor_row' = 0
  /\ cursor_col' = 0
  /\ tlast' = [NoTerm EXCEPT !.op = "init", !.top = ClearTop]

term_setpos(rows, cols) ==
  \E row \in rows, col \in cols :
    /\ cursor_row' = IF RowInRange(row) THEN row ELSE cursor_row
    /\ cursor_col' = IF ColInRange(col) THEN col ELSE cursor_col
    /\ tlast' = [NoTerm EXCEPT !.op = "setpos", !.row = row, !.col = col,
                               !.prow = cursor_row, !.pcol = cursor_col]

\* The first part of term_putchar (lines 50-64): the cursor after the
\* character, before scrolling, and the index of the character store.
PutCharMove(row, col, c) ==
  IF c = CHAR_NL THEN [row |-> row + 1, col |-> 0, store |-> NoIndex]
  ELSE IF c = CHAR_CR THEN [row |-> row, col |-> 0, store |-> NoIndex]
  ELSE IF c = CHAR_BS
    THEN [row |-> row, col |-> IF col > 0 THEN col - 1 ELSE col,
          store |-> NoIndex]
  ELSE IF col + 1 >= TERM_COLS
    THEN [row |-> row + 1, col |-> 0, store |-> row * TERM_COLS + col]
  ELSE [row |-> row, col |-> col + 1, store |-> row * TERM_COLS + col]

\* if (cursor_row >= TERM_ROWS) { scroll_up(); cursor_row = TERM_ROWS - 1; }
NeedsScroll(row) == row >= TERM_ROWS

term_putchar(chars) ==
  \E c \in chars :
    LET m == PutCharMove(cursor_row, cursor_col, c)
    IN  /\ cursor_row' = IF NeedsScroll(m.row) THEN TERM_ROWS - 1 ELSE m.row
        /\ cursor_col' = m.col
        /\ tlast' = [NoTerm EXCEPT !.op = "putchar", !.c = c,
                                   !.prow = cursor_row, !.pcol = cursor_col,
                                   !.store = m.store, !.reach = m.row,
                                   !.scrolls = IF NeedsScroll(m.row) THEN 1 ELSE 0,
                                   !.top = IF NeedsScroll(m.row) THEN scroll_up
                                           ELSE NoIndex]

TermFrame == UNCHANGED <<devVars, cpuVars, histVars, apiVars, dmaVars, prev>>
SetposRows == {-1, 0, 1, TERM_ROWS - 1, TERM_ROWS}
SetposCols == {-1, 0, 1, TERM_COLS - 1, TERM_COLS}
TermChars == {0, CHAR_BS, CHAR_NL, CHAR_CR, 32, 65}

TermNext ==
  \/ term_init /\ TermFrame
  \/ term_clear /\ TermFrame
  \/ term_setpos(SetposRows, SetposCols) /\ TermFrame
  \/ term_putchar(TermChars) /\ TermFrame

\* The terminal runs with the bridge at rest.
TermInit == Init /\ status = ClearStatus

TermSpec == TermInit /\ [][TermNext]_vars

(***************************************************************************)
(* Properties of the completion waiter and of the slot operations.         *)
(***************************************************************************)
InWaiter == pc \in {"wait_entry", "wait_check", "drain", "ack", "done", "final"}
WaiterReturned == pc = "ret" /\ kind # "invalid"
Timeouts == {"clear_timeout", "ack_timeout", "done_timeout"}

\* C1: when every status read of a waiter call, from the first one on, saw
\* ACK set, the waiter returned -3 (TimeoutDuringClear) and the operation
\* returns -3, never 0, whatever DONE and the error field showed.
C1_HeldAckTimesOutInClear ==
  (WaiterReturned /\ ~sawAckClear) =>
    (wres = -3 /\ result = -3 /\ kind = "clear_timeout")

\* ACK was held through a whole call while DONE was shown with error field 0.
C1_Witness ==
  /\ WaiterReturned /\ ~sawAckClear /\ sawDone
  /\ status = [ack |-> TRUE, done |-> TRUE, err |-> 0]
  /\ wres = -3

\* C2: when the waiter's first status read saw ACK set, the waiter is in the
\* acknowledgment phase or beyond it only after one of its reads saw ACK
\* clear.
C2_DrainBeforeAckPhase ==
  (entryAck /\ (pc \in {"ack", "done", "final"}
               \/ (pc = "ret" /\ kind \in {"ack_timeout", "done_timeout",
                                            "completed"})))
    => sawAckClear

\* A call that began with ACK set, drained it and completed.
C2_Witness ==
  pc = "ret" /\ kind = "completed" /\ entryAck /\ drained /\ wres = 0

\* C3: a waiter call that began with ACK clear (both opening reads) returns
\* exactly -1 when no read saw ACK set, and exactly -2 when a read saw ACK
\* set but no read saw DONE.
C3_PhaseIsolation ==
  (WaiterReturned /\ ~entryAck /\ ~drained) =>
    /\ ~sawAck => (wres = -1 /\ result = -1)
    /\ (sawAck /\ ~sawDone) => (wres = -2 /\ result = -2)

C3_Witness ==
  WaiterReturned /\ ~entryAck /\ ~drained /\ sawAck /\ ~sawDone /\ wres = -2

\* C4: a call of dataslot_read or dataslot_write (or of dataslot_load, which
\* calls dataslot_read) with an address outside [WINDOW_LO, WINDOW_HI)
\* returns -10 at once: no register changes, no register is written, no
\* command is triggered and the waiter is not entered.
C4_RejectLeavesRegisters ==
  [][(pc = "idle" /\ pc' # "idle" /\ call'.op \in {"read", "write", "load"}
      /\ (call'.addr < WINDOW_LO \/ call'.addr >= WINDOW_HI))
     => (pc' = "ret" /\ result' = -10 /\ regs' = regs /\ wlog' = <<>>
         /\ inflight' = inflight /\ bstate' = bstate)]_vars

\* A rejected call made after earlier operations programmed the registers.
C4_Witness ==
  /\ pc = "ret" /\ kind = "invalid" /\ result = -10
  /\ call.addr = WINDOW_HI
  /\ regs.command = "WRITE" /\ regs.length = U32(2) /\ regs.param_addr # 0

\* C5: when the waiter saw the command acknowledged and done and the status
\* then shows error field e, the waiter returns -e for e # 0 and 0 for e = 0;
\* the operation returns -e for e # 0, and OpenFile, Read and Write return 0
\* for e = 0.
C5_ErrorFieldNegated ==
  (pc = "ret" /\ kind = "completed") =>
    /\ err = status.err
    /\ wres = (IF err = 0 THEN 0 ELSE 0 - err)
    /\ err # 0 => result = 0 - err
    /\ (err = 0 /\ call.op # "load") => result = 0

C5_Witness ==
  pc = "ret" /\ kind = "completed" /\ err = MaxErr /\ result = 0 - MaxErr

\* C6: the returned value alone tells the failure kind: -10 is returned only
\* for a rejected address, -3 only for a clear-phase timeout, -1 only for an
\* ack-phase timeout and -2 only for a done-phase timeout.
C6_ResultTellsKind ==
  pc = "ret" =>
    /\ result = -10 => kind = "invalid"
    /\ result = -3 => kind = "clear_timeout"
    /\ result = -1 => kind = "ack_timeout"
    /\ result = -2 => kind = "done_timeout"

\* C7: at most one command has been triggered and not yet waited for.
C7_OneCommandInFlight == inflight <= 1

\* A READ in flight after an earlier OPENFILE was triggered and waited for.
C7_Witness ==
  inflight = 1 /\ pc = "ack" /\ regs.command = "READ" /\ regs.param_addr # 0

\* C8: a waiter call makes at most 3 * TIMEOUT_LOOPS loop polls, and every
\* call that entered the waiter returns, whatever the bridge does.
C8_WaiterTerminates ==
  /\ [](polls <= 3 * TIMEOUT_LOOPS)
  /\ (InWaiter ~> (pc = "ret"))

\* A call that used the whole budget of each of the three phases.
C8_Witness == pc = "ret" /\ polls = 3 * TIMEOUT_LOOPS

\* C9: a poll ends the call with a timeout exactly when it is the
\* TIMEOUT_LOOPS-th poll of its phase in a row that did not see the phase's
\* condition, however many polls the earlier phases made; any poll that sees
\* the condition, the TIMEOUT_LOOPS-th included, ends the phase with success.
PhaseCondition ==
  CASE pc = "drain" -> ~status.ack
    [] pc = "ack" -> status.ack
    [] pc = "done" -> status.done
    [] OTHER -> FALSE

C9_FreshBudgetPerPhase ==
  [][(polls' = polls + 1) =>
       /\ fails < TIMEOUT_LOOPS
       /\ (pc' = "ret" /\ kind' \in Timeouts)
            <=> (~PhaseCondition /\ fails = TIMEOUT_LOOPS - 1)
       /\ PhaseCondition => (pc' # pc /\ pc' # "ret")]_vars

\* The done phase starts with a full budget after the drain and the ack
\* phase each succeeded on their last poll.
C9_Witness ==
  /\ pc = "done" /\ polls = 2 * TIMEOUT_LOOPS /\ fails = 0
  /\ timeout = TIMEOUT_LOOPS

\* C10: against the storing bridge, when a read returns 0 for the slot,
\* offset and length of the last write that returned 0, and no write was
\* triggered on that slot range in between, the read's buffer holds the
\* bytes the write's buffer held.
C10_RoundTrip ==
  (pc = "ret" /\ call.op = "read" /\ kind = "completed" /\ result = 0
   /\ SameRange(lastw, call))
    => Buffer(mem, call) = lastw.data

\* Two bytes, not both zero, written from one buffer and read back to
\* another.
C10_Witness ==
  /\ pc = "ret" /\ call.op = "read" /\ kind = "completed" /\ result = 0
  /\ SameRange(lastw, call)
  /\ lastw.data = <<1, 0>> /\ lastw.offset = 1 /\ call.addr = WINDOW_LO + 1

\* The number of writes to the command register in a sequence of writes.
CommandWrites(ws) == Cardinality({i \in 1 .. Len(ws) : ws[i][1] = "command"})

\* C11 as claimed: dataslot_read returns the requested length when the
\* bridge completes the read with error field 0.
C11_ReadReturnsLength ==
  (pc = "ret" /\ call.op = "read" /\ kind = "completed" /\ err = 0)
    => EqualsU32(result, call.length)

\* C11 as amended: dataslot_read returns 0, the waiter's success value and
\* not the requested length, when the bridge completes the read with error
\* field 0.
C11_ReadReturnsZero ==
  (pc = "ret" /\ call.op = "read" /\ kind = "completed" /\ err = 0)
    => (result = 0 /\ result = wres /\ ~EqualsU32(result, call.length))

C11_Witness ==
  /\ pc = "ret" /\ call.op = "read" /\ kind = "completed" /\ err = 0
  /\ call.length = U32(2) /\ result = 0

OpenCalled == call.op = "open" /\ pc # "idle"

\* C12: after dataslot_open_file has staged its parameters, the filename
\* field holds the bytes of the filename up to at most 255 of them and NUL
\* in every byte after them, so a filename of more than 255 bytes leaves
\* exactly its first 255 bytes followed by the terminator; the last byte of
\* the 256-byte field is NUL for every filename; flags and size are the
\* arguments; and no offset at or past the size of the block was written.
C12_FilenameTruncatedAndTerminated ==
  OpenCalled =>
    /\ Len(stage.filename) < FNAME_FIELD
    /\ FilenameByte(stage, FNAME_FIELD) = 0
    /\ \A i \in 1 .. FNAME_FIELD - 1 :
         FilenameByte(stage, i) =
           (IF i <= Len(call.name) THEN call.name[i] ELSE 0)
    /\ stage.flags = call.flags
    /\ stage.size = call.size
    /\ stageHi >= 0
    /\ stageHi < PARAM_BLOCK_SIZE

C12_Witness ==
  /\ OpenCalled
  /\ pc = "ret"
  /\ Len(call.name) > FNAME_FIELD
  /\ Len(stage.filename) = FNAME_FIELD - 1
  /\ stage.filename[FNAME_FIELD - 1] = call.name[FNAME_FIELD - 1]

\* The register writes of a transfer of c.length bytes at offset off of slot
\* c.slot to or from the buffer at c.addr, ending in command cmd.
TransferWrites(c, off, cmd) ==
  << <<"slot_id", c.slot>>,
     <<"slot_offset", off>>,
     <<"bridge_addr", c.addr - WINDOW_LO>>,
     <<"length", c.length>>,
     <<"command", cmd>> >>

Called(op) == call.op = op /\ pc # "idle"

\* C13: a call of dataslot_load and a call of dataslot_read with offset 0
\* make the same register writes in the same order for the same slot,
\* address and length: slot_id, slot_offset 0, the translated address,
\* length, then the READ command; for an address outside the window both
\* write nothing.
C13_LoadIsReadAtZero ==
  (Called("load") \/ (Called("read") /\ call.offset = 0)) =>
    /\ wlog = (IF InWindow(call.addr)
               THEN TransferWrites(call, 0, "READ") ELSE <<>>)
    /\ InWindow(call.addr) => regs = ApplyWrites(regs, wlog)

C13_Witness ==
  /\ Called("load")
  /\ pc = "done"
  /\ call.slot = 1
  /\ call.length = U32(2)
  /\ regs.slot_offset = 0
  /\ regs.command = "READ"

\* C14: dataslot_load returns the requested length when the read under it
\* returned 0, and the read's negative value when it failed: -10 for an
\* address outside the window, the timeout code of the phase that timed
\* out, and the negated error field of the bridge.
C14_LoadResult ==
  (pc = "ret" /\ call.op = "load") =>
    /\ kind = "invalid" => result = -10
    /\ kind = "clear_timeout" => result = -3
    /\ kind = "ack_timeout" => result = -1
    /\ kind = "done_timeout" => result = -2
    /\ (kind = "completed" /\ err # 0) => result = -err
    /\ (kind = "completed" /\ err = 0) => EqualsU32(result, call.length)
    /\ kind # "invalid" => (wres < 0 => result = wres)
    /\ kind \in {"invalid", "completed"} \cup Timeouts

\* C15: once dataslot_open_file has triggered its command, the slot-id
\* register holds 0, the param-address and response-address registers hold
\* the bridge-space addresses of the two staging blocks, both of which lie
\* inside the window, the command register holds OPENFILE and was written
\* once, in that order, and the value returned is the waiter's.
C15_OpenProgramsFixedBlocks ==
  Called("open") =>
    /\ InWindow(PARAM_BUFFER_ADDR)
    /\ InWindow(RESP_BUFFER_ADDR)
    /\ Len(wlog) = 4
    /\ wlog[1][1] = "slot_id" /\ wlog[1][2] = 0
    /\ wlog[2][1] = "param_addr"
    /\ wlog[2][2] = PARAM_BUFFER_ADDR - WINDOW_LO
    /\ wlog[3][1] = "resp_addr"
    /\ wlog[3][2] = RESP_BUFFER_ADDR - WINDOW_LO
    /\ wlog[4][1] = "command" /\ wlog[4][2] = "OPENFILE"
    /\ CommandWrites(wlog) = 1
    /\ regs.slot_id = 0
    /\ regs.param_addr = PARAM_BUFFER_ADDR - WINDOW_LO
    /\ regs.resp_addr = RESP_BUFFER_ADDR - WINDOW_LO
    /\ regs.command = "OPENFILE"
    /\ pc = "ret" => result = wres

C15_Witness ==
  /\ Called("open")
  /\ pc = "ret"
  /\ kind = "completed"
  /\ regs.slot_id = 0
  /\ regs.slot_offset = 1
  /\ regs.length = U32(2)

\* C16: for a buffer inside the window, dataslot_read writes slot_id,
\* slot_offset, the translated address and length and then the READ
\* command; dataslot_write writes the same four registers with the same
\* values in the same order and then the WRITE command.
C16_ReadWriteMirror ==
  ((Called("read") \/ Called("write")) /\ InWindow(call.addr)) =>
    /\ wlog = TransferWrites(call, call.offset,
                             IF call.op = "read" THEN "READ" ELSE "WRITE")
    /\ regs.slot_id = call.slot
    /\ regs.slot_offset = call.offset
    /\ regs.bridge_addr = call.addr - WINDOW_LO
    /\ regs.length = call.length
    /\ regs.command = (IF call.op = "read" THEN "READ" ELSE "WRITE")

C16_Witness ==
  /\ Called("write")
  /\ pc = "ack"
  /\ call.slot = 1
  /\ call.offset = 1
  /\ call.addr = WINDOW_LO + 1
  /\ call.length = U32(2)
  /\ regs.bridge_addr = 1
  /\ regs.command = "WRITE"

\* C17: a call of dataslot_get_size leaves every register, the status, the
\* bridge and the shared memory as they were, writes no register, reads no
\* status and triggers no command; with a null size_out it returns -1 and
\* stores nothing; otherwise it returns 0 and stores 4 MB for slot 0, 20 MB
\* for slot 1 and 1 MB for every other slot.
C17_GetSizeIsLocal ==
  [][(pc = "idle" /\ call'.op = "get_size") =>
       /\ UNCHANGED devVars
       /\ wlog' = <<>>
       /\ polls' = 0
       /\ inflight' = inflight
       /\ pc' = "ret"
       /\ IF call'.addr = 0
          THEN result' = -1 /\ size_out' = size_out
          ELSE /\ result' = 0
               /\ size_out' = (IF call'.slot = 0 THEN 4194304
                               ELSE IF call'.slot = 1 THEN 20971520
                               ELSE 1048576)]_vars

C17_Witness ==
  /\ pc = "ret"
  /\ call.op = "get_size"
  /\ call.slot = 2
  /\ call.addr # 0
  /\ result = 0
  /\ size_out = 1048576
  /\ regs.command = "OPENFILE"

\* C18: the waiter is entered only by the step that starts an operation,
\* the command register is written at most once in a call, nothing is
\* written to a register after the command, and when the waiter is left
\* the operation returns to its caller, with the waiter's value when that
\* value is negative.
C18_NoRetry ==
  [][/\ (pc' = "wait_entry" /\ pc # "wait_entry") => pc = "idle"
     /\ CommandWrites(wlog') <= 1
     /\ InWaiter => (wlog' = wlog /\ regs' = regs)
     /\ (InWaiter /\ pc' \notin {"wait_entry", "wait_check", "drain", "ack",
                                  "done", "final"}) =>
          /\ pc' = "ret"
          /\ wres' < 0 => result' = wres']_vars

C18_Witness ==
  /\ pc = "ret"
  /\ call.op = "load"
  /\ kind = "ack_timeout"
  /\ result = -1
  /\ CommandWrites(wlog) = 1

\* C19: a step of the waiter, on every path and on each of the three
\* timeouts, leaves the registers, the status, the bridge, the shared
\* memory and the slots as they were and adds no register write to the
\* call's record.
C19_WaiterOnlyReads ==
  [][(InWaiter /\ (pc' # pc \/ polls' # polls)) =>
       (UNCHANGED devVars /\ wlog' = wlog)]_vars

C19_Witness ==
  /\ pc = "ret"
  /\ kind = "done_timeout"
  /\ call.op = "write"
  /\ regs.command = "WRITE"
  /\ regs.length = U32(2)
  /\ bstate.pending

\* C21: when dma_wait has returned after a fill, every word of the range
\* holds the fill pattern; after a copy, every word of the destination
\* holds the word of the source at the same offset; whatever loads and
\* stores the CPU made to other words while the DMA ran.
C21_DmaCompleteAfterWait ==
  dpc = "ret" =>
    /\ dcall.op = "fill" => \A a \in DstRange(dcall) : ram[a] = dcall.fill
    /\ dcall.op = "copy" =>
         \A i \in 0 .. (dcall.length \div 4) - 1 :
           ram[dcall.dst + 4 * i] = ram[dcall.src + 4 * i]
    /\ ~dstat.busy

C21_Witness ==
  /\ dpc = "ret"
  /\ dcall.op = "copy"
  /\ ram[DMA_TARGET] = 1
  /\ ram[DMA_TARGET + 4] = 2
  /\ ram[DMA_TARGET2] = 1
  /\ ram[DMA_TARGET2 + 4] = 2
  /\ ram[PSRAM_DMA_CPU] = 1
  /\ probe = PSRAM_DMA_CPU

\* C22: while a DMA is started and after it has finished, every word
\* outside its destination range holds what the CPU last stored there, in
\* SDRAM, PSRAM and SRAM alike, and no load of the CPU returned another
\* value.
C22_DmaKeepsCpuData ==
  /\ ~derr
  /\ dpc # "idle" =>
       \A a \in RamCells \ DstRange(dcall) : ram[a] = expect[a]

C22_Witness ==
  /\ dpc = "started"
  /\ dcall.op = "fill"
  /\ dstat.busy
  /\ dstat.pos = 1
  /\ ram[DMA_TARGET] = 2
  /\ ram[DMA_TARGET + 4] = 1
  /\ ram[DMA_TARGET2] = 1
  /\ ram[SDRAM_DMA_CPU] = 1
  /\ ram[SRAM_DMA_CPU] = 1
  /\ probe = SDRAM_DMA_CPU

\* C23: in a call of dataslot_open_file or dataslot_read that triggers its
\* command, the write of the command register is the last register write
\* and every write before it is to a parameter register; for open, the
\* parameter block already holds the filename, flags and size of the call;
\* and when the waiter is entered, with the command written, it has made no
\* status read yet.
C23_ParamsCommandThenWait ==
  (pc # "idle" /\ call.op \in {"open", "read"} /\ kind # "invalid") =>
    /\ Len(wlog) >= 1
    /\ wlog[Len(wlog)][1] = "command"
    /\ \A i \in 1 .. Len(wlog) - 1 : wlog[i][1] \in RegNames \ {"command"}
    /\ call.op = "open" =>
         /\ stage.flags = call.flags
         /\ stage.size = call.size
         /\ Len(stage.filename) =
              (IF Len(call.name) < FNAME_FIELD
               THEN Len(call.name) ELSE FNAME_FIELD - 1)
         /\ stage.filename[1] = call.name[1]
    /\ pc = "wait_entry" =>
         (~sawAck /\ ~sawAckClear /\ ~sawDone /\ polls = 0)
    /\ (sawAck \/ sawAckClear \/ sawDone) => CommandWrites(wlog) = 1

C23_Witness ==
  /\ pc = "wait_check"
  /\ call.op = "open"
  /\ Len(call.name) = 1
  /\ call.flags = 1
  /\ stage.flags = 1
  /\ Len(stage.filename) = 1
  /\ bstate.pending
  /\ regs.length = U32(2)

\* C24: the waiter leaves its acknowledgment loop for the done loop only on
\* a status read with ACK set, leaves the done loop for the final read only
\* on a later status read with DONE set, reaches the done loop only from
\* the acknowledgment loop and the final read only from the done loop, and
\* returns a completion outcome only from the final read; so a completion
\* outcome comes after a read with ACK set and a later read with DONE set.
C24_AckThenDoneBeforeCompletion ==
  [][/\ (pc' = "done" /\ pc # "done") => (pc = "ack" /\ DS_STATUS_ACK(status))
     /\ (pc' = "final" /\ pc # "final") =>
          (pc = "done" /\ DS_STATUS_DONE(status) /\ sawAck)
     /\ (kind' = "completed" /\ kind # "completed") =>
          (pc = "final" /\ sawAck /\ sawDone
             /\ wres' = (IF ErrField(status) = 0 THEN 0
                         ELSE 0 - ErrField(status)))]_vars

C24_Witness ==
  /\ pc = "ret"
  /\ kind = "completed"
  /\ drained
  /\ sawAck
  /\ sawDone
  /\ err = 2
  /\ wres = -2

\* C25: in an operation that follows one that ended with a timeout, the
\* waiter's check finding ACK set enters the drain loop, the
\* acknowledgment loop is entered only on a status read with ACK clear, and
\* it starts with the full budget, as in a first call.
C25_DrainReenteredAfterTimeout ==
  [][(prev \in Timeouts /\ InWaiter) =>
       /\ (pc = "wait_check" /\ pc' # pc /\ DS_STATUS_ACK(status)) =>
            (pc' = "drain" /\ drained')
       /\ (pc' = "ack" /\ pc # "ack") =>
            /\ pc \in {"wait_check", "drain"}
            /\ ~DS_STATUS_ACK(status)
            /\ timeout' = TIMEOUT_LOOPS]_vars

C25_Witness ==
  /\ prev = "ack_timeout"
  /\ pc = "ack"
  /\ entryAck
  /\ drained
  /\ sawAckClear

\* C26: dataslot_read and dataslot_write reject the buffer address a, with
\* -10, exactly when a is below 0x10000000 or at or above 0x14000000, and
\* for an accepted address the bridge-address register holds a minus
\* 0x10000000.
C26_WindowIsHalfOpen ==
  ((Called("read") \/ Called("write"))) =>
    /\ kind = "invalid" <=> (call.addr < 268435456 \/ call.addr >= 335544320)
    /\ kind = "invalid" => (pc = "ret" /\ result = -10 /\ wlog = <<>>)
    /\ kind # "invalid" =>
         /\ regs.bridge_addr = call.addr - 268435456
         /\ regs.bridge_addr >= 0
         /\ regs.bridge_addr < 67108864
         /\ wlog[3][1] = "bridge_addr"
         /\ wlog[3][2] = call.addr - 268435456

C26_Witness ==
  /\ Called("write")
  /\ pc = "ret"
  /\ kind = "completed"
  /\ call.addr = WINDOW_HI - 1
  /\ regs.bridge_addr = 67108863

\* C27: when dataslot_load returns after the bridge completed the read with
\* error field 0, the value returned is not negative and is the number
\* max_length, for every max_length of 32 bits.
C27_LoadSuccessNonNegative ==
  (pc = "ret" /\ call.op = "load" /\ kind = "completed" /\ err = 0) =>
    /\ result >= 0
    /\ result \div 65536 = call.length.hi
    /\ result % 65536 = call.length.lo

\* C28: the step in which dataslot_open_file programs the registers writes
\* only slot_id, param_addr, resp_addr and command, and leaves slot_offset,
\* bridge_addr and length as they were; the step in which dataslot_read,
\* dataslot_write or dataslot_load programs them writes only slot_id,
\* slot_offset, bridge_addr, length and command, and leaves param_addr and
\* resp_addr as they were.
C28_RegisterFrame ==
  [][(pc = "idle" /\ pc' = "wait_entry") =>
       /\ call'.op = "open" =>
            /\ regs'.slot_offset = regs.slot_offset
            /\ regs'.bridge_addr = regs.bridge_addr
            /\ regs'.length = regs.length
            /\ {wlog'[i][1] : i \in 1 .. Len(wlog')} =
                 {"slot_id", "param_addr", "resp_addr", "command"}
       /\ call'.op \in {"read", "write", "load"} =>
            /\ regs'.param_addr = regs.param_addr
            /\ regs'.resp_addr = regs.resp_addr
            /\ {wlog'[i][1] : i \in 1 .. Len(wlog')} =
                 {"slot_id", "slot_offset", "bridge_addr", "length",
                  "command"}]_vars

C28_Witness ==
  /\ Called("open")
  /\ pc = "ack"
  /\ regs.slot_offset = 1
  /\ regs.bridge_addr = 1
  /\ regs.length = U32(1)
  /\ regs.command = "OPENFILE"

\* C29: when dataslot_read or dataslot_write has triggered its command, the
\* programmed range of length bytes from bridge_addr ends inside the shared
\* window: no byte of it is at or past the bridge-space size of the
\* window, 0x04000000.
C29_TransferInsideWindow ==
  ((Called("read") \/ Called("write")) /\ kind # "invalid") =>
    /\ regs.bridge_addr >= 0
    /\ regs.length.hi = 0
    /\ regs.bridge_addr + regs.length.lo <= 67108864

\* The bridge has acknowledged and finished the command just triggered.
BridgeCompleted == ~bstate.pending /\ ~bstate.busy

\* C30: when the bridge has retired the old ACK, acknowledged the command
\* just triggered and finished it with error field 0, at whatever point
\* between the waiter's status reads, the waiter does not return the
\* clear-phase timeout, and the value it returns is 0.
C30_CompletedNeverClearTimeout ==
  [][(InWaiter /\ pc' = "ret" /\ BridgeCompleted /\ ErrField(status) = 0) =>
       (kind' # "clear_timeout" /\ wres' = 0)]_vars

\* C31: the waiter returns a completion outcome only when the bridge has
\* driven DONE for the command just triggered, also against a bridge that
\* raises ACK for that command while the DONE of the command before is
\* still set.
C31_StaleDoneNotAccepted ==
  [][(InWaiter /\ pc' = "ret" /\ kind' = "completed") => BridgeCompleted]_vars

\* C32: the cursor stays inside the TERM_ROWS x TERM_COLS display and every
\* VRAM access of a terminal call is inside the VRAM; term_setpos takes a
\* row and a column each only when it is in range, whatever the other is;
\* term_putchar scrolls once exactly when the cursor reaches the row past
\* the last one, and then leaves the cursor on the last row.
C32_TerminalCursor ==
  /\ 0 <= cursor_row /\ cursor_row < TERM_ROWS
  /\ 0 <= cursor_col /\ cursor_col < TERM_COLS
  /\ tlast.store # NoIndex => (0 <= tlast.store /\ tlast.store < TERM_SIZE)
  /\ tlast.top # NoIndex => (0 <= tlast.top /\ tlast.top < TERM_SIZE)
  /\ tlast.op = "setpos" =>
       /\ cursor_row = IF 0 <= tlast.row /\ tlast.row < TERM_ROWS
                         THEN tlast.row ELSE tlast.prow
       /\ cursor_col = IF 0 <= tlast.col /\ tlast.col < TERM_COLS
                         THEN tlast.col ELSE tlast.pcol
  /\ tlast.op = "putchar" =>
       /\ tlast.reach <= TERM_ROWS
       /\ tlast.scrolls = (IF tlast.reach = TERM_ROWS THEN 1 ELSE 0)
       /\ tlast.reach = TERM_ROWS => cursor_row = TERM_ROWS - 1
       /\ tlast.reach < TERM_ROWS => cursor_row = tlast.reach

\* A character typed into the last cell of the display, after a term_setpos
\* there: the cursor wrapped to the row past the last one and the display
\* scrolled.
C32_Witness ==
  /\ tlast.op = "putchar"
  /\ tlast.store = TERM_SIZE - 1
  /\ tlast.scrolls = 1
  /\ cursor_row = TERM_ROWS - 1
  /\ cursor_col = 0
====
